---- MODULE Spec2Model ----
(***************************************************************************)
(* A model of `meta` (src/src/main.rs): the manager registry               *)
(* (load_managers), the config resolution loop (load_configs), the         *)
(* reconciliation (compute_add_remove) and the command templating and      *)
(* execution engine (fmt_run_command, run_command, add_remove_items,       *)
(* upgrade) as driven by main.                                             *)
(*                                                                         *)
(* Three specifications share the variables: SpecManagers runs             *)
(* load_managers alone, SpecConfigs (FairSpecConfigs with the fairness of   *)
(* sequential code) runs load_configs alone, and Spec runs main, in which  *)
(* the two loaders appear by their results only. The variables of the      *)
(* parts a specification does not run keep their idle values.              *)
(*                                                                         *)
(* Files, standard output, standard input and exit statuses are inputs:    *)
(* each is drawn from a small set at the step that reads it.               *)
(*                                                                         *)
(* Strings are modelled as sequences of fragments: a file name is          *)
(* <<stem, suffix>>, a command template is a sequence of words in which    *)
(* the words "<item>" and "<items>" are the placeholders.                  *)
(***************************************************************************)
EXTENDS Integers, Sequences, FiniteSets, TLC

VARIABLES
    \* ---- load_managers (main.rs 96-158)
    lm_pc,              \* position inside load_managers
    managers_to_load,   \* Option<Vec<String>>: None or a sequence of names
    read_dir,           \* the directory listing, in discovery order
    manager_order,      \* the lines of the manager_order file
    lm_managers,        \* the local `managers` (names, in vector order)
    lm_result,          \* "none" | "Ok" | the error text
    \* ---- load_configs (main.rs 161-222)
    lc_pc,              \* position inside load_configs
    configs_to_parse,   \* the import worklist
    i,                  \* the cursor into configs_to_parse (0-based, as in the code)
    items,              \* manager name -> Manager.items, for the loaded managers
    keys_seen,          \* keys of the current table the `for` loop has consumed
    entry,              \* the entry being iterated: its key, the kind of its value
                        \* and how many elements the closure has consumed
    lc_result,          \* NoResult | OkResult | the error message
    parsed,             \* history: identifier -> how often its document was parsed
    skipped,            \* history: identifiers whose import was suppressed (line 202)
    declared,           \* history: per loaded manager, the items read under its name
    \* ---- main (main.rs 64-94) and the engines it drives
    pc,                 \* position inside main
    command,            \* cli.command
    managers,           \* the Vec<Manager> of main
    manager_index,      \* the manager a `for manager in managers` loop is at
    operation_index,    \* index into `operations` in add_remove_items (1 or 2)
    item_index,         \* the next item of fmt_run_command's per-item loop
    main_result,        \* how main ended, if it has
    answered,           \* history: what the user's last answer to the prompt said
    system_items,       \* history: manager index -> the set parsed from its list output
    executed            \* history: the shell commands handed to Command, in order

lmVars == <<lm_pc, managers_to_load, read_dir, manager_order, lm_managers, lm_result>>
lcVars == <<lc_pc, configs_to_parse, i, items, keys_seen, entry, lc_result, parsed, skipped, declared>>

mainVars == <<pc, command, managers, manager_index, operation_index, item_index,
              main_result, answered, system_items, executed>>

vars == <<lmVars, lcVars, mainVars>>

\* anyhow::Result<()>: not returned yet, Ok(()), or the fragments of the
\* error message
NoResult == <<>>
OkResult == <<"Ok">>

NoEntry == <<>>

\* Option<T>
None == <<"None">>
Some(x) == <<"Some", x>>
IsSome(o) == o[1] = "Some"
Unwrap(o) == o[2]

\* ------------------------------------------------------------------ bounds
MaxFiles == 3       \* files in the managers directory
MaxOrderLines == 2  \* lines of the manager_order file
MaxRequested == 2   \* names given with --managers
MaxDocs == 2        \* configuration documents besides the machine's root document
MaxArray == 2       \* elements of an array value in a configuration document
MaxParsed == 2      \* the history counter `parsed` stops counting here
MaxManagers == 2    \* managers returned by load_managers in a run of main
MaxLines == 2       \* lines of a list command's standard output

\* ------------------------------------------------------- generic helpers
SeqsUpTo(S, n) == UNION {[1..k -> S] : k \in 0..n}

Range(s) == {s[k] : k \in DOMAIN s}

NoDuplicates(s) == \A a, b \in DOMAIN s : a # b => s[a] # s[b]

SeqPermutations(s) ==
    {[k \in DOMAIN s |-> s[p[k]]] :
        p \in {q \in [DOMAIN s -> DOMAIN s] : \A a, b \in DOMAIN s : a # b => q[a] # q[b]}}

\* ---------------------------------------------------------- load_managers
ManagerNames == {"A", "B", "C"}
Suffixes == {".toml", ".bak"}
FileNames == ManagerNames \X Suffixes

\* file_name.strip_suffix(".toml"): Some(stem) or None
StripSuffixToml(file) == IF file[2] = ".toml" THEN Some(file[1]) ELSE None

\* The filter of lines 112-119: is_none_or(|managers| managers.contains(name))
PassesFilter(name) ==
    \/ ~IsSome(managers_to_load)
    \/ name \in Range(Unwrap(managers_to_load))

\* Lines 99-119: the names of the .toml files that pass the filter, in
\* discovery order
RECURSIVE DiscoveredNames(_)
DiscoveredNames(files) ==
    IF files = <<>> THEN <<>>
    ELSE LET name == StripSuffixToml(Head(files)) IN
         IF IsSome(name) /\ PassesFilter(Unwrap(name))
         THEN <<Unwrap(name)>> \o DiscoveredNames(Tail(files))
         ELSE DiscoveredNames(Tail(files))

\* manager_order.iter().position(|m| *m == name): the first index, or None.
\* Option<usize> is ordered None < Some(0) < Some(1) < ..., so the key is
\* modelled as 0 for None and k for the k-th line (1-based).
OrderKey(name) ==
    IF \E k \in DOMAIN manager_order : manager_order[k] = name
    THEN CHOOSE k \in DOMAIN manager_order :
            /\ manager_order[k] = name
            /\ \A j \in DOMAIN manager_order : manager_order[j] = name => k <= j
    ELSE 0

\* managers.sort_unstable_by_key(...): any permutation that is ascending in
\* the key; elements with equal keys may come out in any order
SortUnstableByKey(ms) ==
    {p \in SeqPermutations(ms) :
        \A a, b \in DOMAIN p : a < b => OrderKey(p[a]) <= OrderKey(p[b])}

\* Lines 146-155: the check of the requested names, as written
RequestedCheckFails ==
    /\ IsSome(managers_to_load)
    /\ \E k \in DOMAIN Unwrap(managers_to_load) :
          \E j \in DOMAIN lm_managers : lm_managers[j] = Unwrap(managers_to_load)[k]

Running == [status |-> "running", context |-> "", cause |-> "", subject |-> <<>>]

IdleMain ==
    /\ pc = "idle"
    /\ command = "none"
    /\ managers = <<>>
    /\ manager_index = 1
    /\ operation_index = 1
    /\ item_index = 1
    /\ main_result = Running
    /\ answered = None
    /\ system_items = <<>>
    /\ executed = <<>>

IdleConfigs ==
    /\ lc_pc = "idle"
    /\ configs_to_parse = <<>>
    /\ i = 0
    /\ items = <<>>
    /\ keys_seen = {}
    /\ entry = NoEntry
    /\ lc_result = NoResult
    /\ parsed = <<>>
    /\ skipped = {}
    /\ declared = <<>>

IdleManagers ==
    /\ lm_pc = "idle"
    /\ managers_to_load = None
    /\ read_dir = <<>>
    /\ manager_order = <<>>
    /\ lm_managers = <<>>
    /\ lm_result = "none"

InitManagers ==
    /\ IdleConfigs
    /\ IdleMain
    /\ lm_pc = "read_dir"
    /\ managers_to_load \in {None} \cup {Some(s) : s \in SeqsUpTo(ManagerNames, MaxRequested)}
    /\ read_dir \in {s \in SeqsUpTo(FileNames, MaxFiles) : NoDuplicates(s)}
    /\ manager_order \in SeqsUpTo(ManagerNames, MaxOrderLines)
    /\ lm_managers = <<>>
    /\ lm_result = "none"

\* Line 101: the managers directory cannot be read
ReadDirFails ==
    /\ lm_pc = "read_dir"
    /\ lm_pc' = "done"
    /\ lm_result' = "Failed to read manager dir"
    /\ UNCHANGED <<managers_to_load, read_dir, manager_order, lm_managers, lcVars, mainVars>>

\* Lines 99-131: every selected declaration is read and deserialized
LoadDeclarations ==
    /\ lm_pc = "read_dir"
    /\ lm_managers' = DiscoveredNames(read_dir)
    /\ lm_pc' = "sort"
    /\ UNCHANGED <<managers_to_load, read_dir, manager_order, lm_result, lcVars, mainVars>>

\* Lines 122-126, 131: a selected declaration cannot be read or deserialized
LoadDeclarationFails ==
    /\ lm_pc = "read_dir"
    /\ DiscoveredNames(read_dir) # <<>>
    /\ lm_pc' = "done"
    /\ lm_result' = "Failed to deserialize manager"
    /\ UNCHANGED <<managers_to_load, read_dir, manager_order, lm_managers, lcVars, mainVars>>

\* Line 134: the manager_order file cannot be read
ReadOrderFails ==
    /\ lm_pc = "sort"
    /\ lm_pc' = "done"
    /\ lm_result' = "Failed to read manager order"
    /\ UNCHANGED <<managers_to_load, read_dir, manager_order, lm_managers, lcVars, mainVars>>

\* Lines 133-143
SortManagers ==
    /\ lm_pc = "sort"
    /\ \E sorted \in SortUnstableByKey(lm_managers) : lm_managers' = sorted
    /\ lm_pc' = "check"
    /\ UNCHANGED <<managers_to_load, read_dir, manager_order, lm_result, lcVars, mainVars>>

\* Lines 145-157
CheckRequested ==
    /\ lm_pc = "check"
    /\ lm_result' = IF RequestedCheckFails THEN "Requested Manager not found" ELSE "Ok"
    /\ lm_pc' = "done"
    /\ UNCHANGED <<managers_to_load, read_dir, manager_order, lm_managers, lcVars, mainVars>>

NextManagers ==
    \/ ReadDirFails
    \/ LoadDeclarations
    \/ LoadDeclarationFails
    \/ ReadOrderFails
    \/ SortManagers
    \/ CheckRequested

SpecManagers == InitManagers /\ [][NextManagers]_vars

\* ---- claims about load_managers

\* The discovery order of the managers that were loaded
Discovered == DiscoveredNames(read_dir)
PositionIn(s, x) == CHOOSE k \in DOMAIN s : s[k] = x
IsNamed(name) == name \in Range(manager_order)
SortReturned == lm_pc = "check" \/ (lm_pc = "done" /\ lm_result = "Ok")

\* C4: the sorted managers follow the ordering file; every manager that no
\* line of the ordering file names comes after all named managers, and the
\* unnamed managers keep their discovery order among themselves.
C4_UnnamedManagersSortLast ==
    SortReturned =>
        \A a, b \in DOMAIN lm_managers :
            a < b =>
                /\ IsNamed(lm_managers[b]) => IsNamed(lm_managers[a])
                /\ (IsNamed(lm_managers[a]) /\ IsNamed(lm_managers[b]))
                       => OrderKey(lm_managers[a]) <= OrderKey(lm_managers[b])
                /\ (~IsNamed(lm_managers[a]) /\ ~IsNamed(lm_managers[b]))
                       => PositionIn(Discovered, lm_managers[a])
                              < PositionIn(Discovered, lm_managers[b])

\* C5: with a subset filter only requested managers are loaded, the call
\* fails with "Requested Manager not found" if a requested name is missing
\* from the resulting list, and it succeeds when every requested name has a
\* declaration.
C5_RequestedManagersFound ==
    (lm_pc = "done" /\ IsSome(managers_to_load)
        /\ lm_result \in {"Ok", "Requested Manager not found"}) =>
        /\ Range(lm_managers) \subseteq Range(Unwrap(managers_to_load))
        /\ lm_result = "Requested Manager not found"
               <=> \E name \in Range(Unwrap(managers_to_load)) :
                      name \notin Range(lm_managers)
        /\ Range(Unwrap(managers_to_load)) \subseteq Range(Discovered)
               => lm_result = "Ok"

\* ----------------------------------------------------------- load_configs
\* Document identifiers: 0 is the root "../machines/{hostname}" (line 168),
\* 1..MaxDocs are the identifiers documents name in `imports`
RootConfig == 0
ConfigIds == 0..MaxDocs
ItemNames == {"x", "y"}
ConfigManagers == {"A", "B"}
ConfigKeys == {"imports"} \cup ConfigManagers

\* toml::Value: a string, an array, or another scalar (an integer stands for
\* every value that is neither a string nor an array)
ValueKinds == {"String", "Array", "Integer"}
StringValue(x) == <<"String", x>>
IntegerValue == <<"Integer">>

\* The strings a document can hold under a key
StringsOf(manager_name) == IF manager_name = "imports" THEN ConfigIds ELSE ItemNames

\* Lines 185-191: value.as_array().into_iter().flatten()
\*                     .chain(value.is_str().then_some(&value))
\* The values this iterator can yield next: an element of the array, or the
\* value itself when it is a string; nothing for any other value
NextElements(e) ==
    IF e.kind = "Array" /\ e.consumed < MaxArray
    THEN {StringValue(x) : x \in StringsOf(e.manager_name)} \cup {IntegerValue}
    ELSE IF e.kind = "String" /\ e.consumed = 0
    THEN {StringValue(x) : x \in StringsOf(e.manager_name)}
    ELSE {}

\* Whether the iterator can be exhausted here: an array ends after any
\* number of elements, a string yields exactly one, other values none
IteratorCanEnd(e) ==
    \/ e.kind = "Array"
    \/ e.kind = "Integer"
    \/ e.kind = "String" /\ e.consumed = 1

\* Lines 194-196: value.as_str()
AsStr(value) == IF value[1] = "String" THEN Some(value[2]) ELSE None

\* (mutant) the import is pushed without looking for it in the worklist
PushImportUnchecked(configs, item) == Append(configs, item)

\* Lines 202-204: if !configs_to_parse.contains(&item) { push(item) }
PushImport(configs, item) ==
    IF item \in Range(configs) THEN configs ELSE Append(configs, item)

\* (mutant) an item whose key matches no manager goes to every manager
InsertItemUnmatchedToAll(its, manager_name, item) ==
    [name \in DOMAIN its |->
        IF name = manager_name \/ manager_name \notin DOMAIN its
        THEN its[name] \cup {item} ELSE its[name]]

\* Lines 207-212: insert into the manager of that name, if there is one
InsertItem(its, manager_name, item) ==
    IF manager_name \in DOMAIN its
    THEN [its EXCEPT ![manager_name] = @ \cup {item}]
    ELSE its

\* (mutant) the cursor is not advanced
StrictAddLost(n, m) == n

\* Line 219: i = i.strict_add(1)
StrictAdd(n, m) == n + m

\* Lines 168 and 173: the path of a document of the worklist
ConfigFile(id) ==
    "CONFIG_PATH/configs/"
        \o (IF id = RootConfig THEN "../machines/hostname" ELSE ToString(id))
        \o ".toml"

\* The error messages of lines 177, 181 and 196, as the fragments the code
\* writes: lines 177 and 181 pass a plain string literal, not format!()
ReadConfigError == <<"Failed to read config file '", "{config_file}", "'">>
DeserializeConfigError == <<"Failed to deserialize config '", "{config_file}", "'">>
NonStringItemError == <<"Found non-string item '", "value", "'">>

\* Lines 161-171. Manager.items is a serde field with a default, so a
\* declaration may already hold items when load_configs starts; such a
\* declaration is drawn for a manager that is loaded alone.
InitConfigs ==
    /\ IdleManagers
    /\ IdleMain
    /\ lc_pc = "hostname"
    /\ configs_to_parse = <<>>
    /\ i = 0
    /\ \E loaded \in SUBSET ConfigManagers : items \in [loaded -> SUBSET ItemNames]
    /\ (\E name \in DOMAIN items : items[name] # {}) => DOMAIN items = {"A"}
    /\ keys_seen = {}
    /\ entry = NoEntry
    /\ lc_result = NoResult
    /\ parsed = [id \in ConfigIds |-> 0]
    /\ skipped = {}
    /\ declared = [name \in DOMAIN items |-> {}]

\* Line 163: /etc/hostname cannot be read
HostnameFails ==
    /\ lc_pc = "hostname"
    /\ lc_pc' = "done"
    /\ lc_result' = <<"Failed to get hostname">>
    /\ UNCHANGED <<configs_to_parse, i, items, keys_seen, entry, parsed, skipped, declared, lmVars, mainVars>>

\* Lines 163-171: the worklist starts as the machine's document
ReadHostname ==
    /\ lc_pc = "hostname"
    /\ configs_to_parse' = <<RootConfig>>
    /\ i' = 0
    /\ lc_pc' = "loop"
    /\ UNCHANGED <<items, keys_seen, entry, lc_result, parsed, skipped, declared, lmVars, mainVars>>

\* Lines 172-181: the next document is read and deserialized
OpenConfig ==
    /\ lc_pc = "loop"
    /\ i < Len(configs_to_parse)
    /\ parsed' = [parsed EXCEPT ![configs_to_parse[i + 1]] =
                                    IF @ < MaxParsed THEN @ + 1 ELSE @]
    /\ keys_seen' = {}
    /\ lc_pc' = "table"
    /\ UNCHANGED <<configs_to_parse, i, items, entry, lc_result, skipped, declared, lmVars, mainVars>>

\* Lines 176-177: the document cannot be read
ReadConfigFails ==
    /\ lc_pc = "loop"
    /\ i < Len(configs_to_parse)
    /\ lc_pc' = "done"
    /\ lc_result' = ReadConfigError
    /\ UNCHANGED <<configs_to_parse, i, items, keys_seen, entry, parsed, skipped, declared, lmVars, mainVars>>

\* Lines 180-181: the document is not valid TOML
DeserializeConfigFails ==
    /\ lc_pc = "loop"
    /\ i < Len(configs_to_parse)
    /\ lc_pc' = "done"
    /\ lc_result' = DeserializeConfigError
    /\ UNCHANGED <<configs_to_parse, i, items, keys_seen, entry, parsed, skipped, declared, lmVars, mainVars>>

\* Lines 183-191: the `for` loop takes the next (key, value) entry. A table
\* holds a key once; which keys it holds, in which order the map yields them
\* and what their values are is the document's content, drawn here.
BeginEntry ==
    /\ lc_pc = "table"
    /\ \E manager_name \in ConfigKeys \ keys_seen, kind \in ValueKinds :
          /\ entry' = [manager_name |-> manager_name, kind |-> kind, consumed |-> 0]
          /\ keys_seen' = keys_seen \cup {manager_name}
    /\ lc_pc' = "entry"
    /\ UNCHANGED <<configs_to_parse, i, items, lc_result, parsed, skipped, declared, lmVars, mainVars>>

\* Lines 192-216: the closure of try_for_each, called on the next element
EntryElement ==
    /\ lc_pc = "entry"
    /\ \E value \in NextElements(entry) :
          LET item == AsStr(value) IN
          IF ~IsSome(item)
          THEN /\ lc_pc' = "done"
               /\ lc_result' = NonStringItemError
               /\ UNCHANGED <<configs_to_parse, items, entry, skipped, declared>>
          ELSE /\ entry' = [entry EXCEPT !.consumed = @ + 1]
               /\ UNCHANGED <<lc_pc, lc_result>>
               /\ IF entry.manager_name = "imports"
                  THEN /\ configs_to_parse' = PushImport(configs_to_parse, Unwrap(item))
                       /\ skipped' = IF Unwrap(item) \in Range(configs_to_parse)
                                     THEN skipped \cup {Unwrap(item)} ELSE skipped
                       /\ UNCHANGED <<items, declared>>
                  ELSE /\ items' = InsertItem(items, entry.manager_name, Unwrap(item))
                       /\ declared' = IF entry.manager_name \in DOMAIN declared
                                      THEN [declared EXCEPT ![entry.manager_name] = @ \cup {Unwrap(item)}]
                                      ELSE declared
                       /\ UNCHANGED <<configs_to_parse, skipped>>
    /\ UNCHANGED <<i, keys_seen, parsed, lmVars, mainVars>>

\* Line 216: try_for_each has consumed every element of the entry
EndOfEntry ==
    /\ lc_pc = "entry"
    /\ IteratorCanEnd(entry)
    /\ entry' = NoEntry
    /\ lc_pc' = "table"
    /\ UNCHANGED <<configs_to_parse, i, items, keys_seen, lc_result, parsed, skipped, declared, lmVars, mainVars>>

\* Line 219: the table is exhausted
EndOfTable ==
    /\ lc_pc = "table"
    /\ i' = StrictAdd(i, 1)
    /\ lc_pc' = "loop"
    /\ UNCHANGED <<configs_to_parse, items, keys_seen, entry, lc_result, parsed, skipped, declared, lmVars, mainVars>>

\* Lines 172, 221: the cursor is past the end of the worklist
ConfigsDone ==
    /\ lc_pc = "loop"
    /\ i >= Len(configs_to_parse)
    /\ lc_pc' = "done"
    /\ lc_result' = OkResult
    /\ UNCHANGED <<configs_to_parse, i, items, keys_seen, entry, parsed, skipped, declared, lmVars, mainVars>>

NextConfigs ==
    \/ HostnameFails
    \/ ReadHostname
    \/ OpenConfig
    \/ ReadConfigFails
    \/ DeserializeConfigFails
    \/ BeginEntry
    \/ EntryElement
    \/ EndOfEntry
    \/ EndOfTable
    \/ ConfigsDone

SpecConfigs == InitConfigs /\ [][NextConfigs]_vars

\* load_configs is straight-line sequential code: whenever a step is possible
\* it is taken
FairSpecConfigs == SpecConfigs /\ WF_vars(NextConfigs)

\* ---- claims about load_configs

IsPrefix(s, t) == Len(s) <= Len(t) /\ \A k \in DOMAIN s : s[k] = t[k]

\* How many documents have been opened: the cursor, plus the one in progress
\* (or the one whose entry made the call fail)
Opened == IF lc_pc \in {"table", "entry"} \/ lc_result = NonStringItemError THEN i + 1 ELSE i

\* C2: load_configs terminates whatever the import graph, and when it
\* returns Ok the cursor has passed the end of a worklist that holds each
\* identifier once.
C2_LoadConfigsTerminates ==
    /\ <>(lc_pc = "done")
    /\ [](lc_result = OkResult =>
            /\ i = Len(configs_to_parse)
            /\ NoDuplicates(configs_to_parse))

\* A run that ended Ok although the root and another document were imported
\* again (a cycle back to the root, and a self or mutual import)
C2_Witness ==
    /\ lc_pc = "done"
    /\ lc_result = OkResult
    /\ RootConfig \in skipped
    /\ skipped # {RootConfig}
    /\ Len(configs_to_parse) = MaxDocs + 1

\* C3: the worklist never holds an identifier twice, is only ever extended
\* at its end, and the cursor advances by one per document over it in
\* insertion order; so every identifier is parsed at most once, the parsed
\* ones are exactly the first entries of the worklist, and on success every
\* identifier of the worklist has been parsed exactly once.
C3_WorklistNoDuplicatesInOrder ==
    /\ [](/\ NoDuplicates(configs_to_parse)
          /\ Opened <= Len(configs_to_parse)
          /\ \A id \in ConfigIds :
                parsed[id] = IF \E k \in 1..Opened : configs_to_parse[k] = id
                             THEN 1 ELSE 0
          /\ lc_result = OkResult =>
                \A k \in DOMAIN configs_to_parse : parsed[configs_to_parse[k]] = 1)
    /\ [][/\ IsPrefix(configs_to_parse, configs_to_parse')
          /\ i' = i \/ (i' = i + 1 /\ lc_pc = "table" /\ lc_pc' = "loop")
          /\ parsed' # parsed =>
                /\ i < Len(configs_to_parse)
                /\ parsed' = [parsed EXCEPT ![configs_to_parse[i + 1]] = 1]]_vars

\* A successful run in which two identifiers were imported more than once
\* and every document of the full worklist was parsed once
C3_Witness ==
    /\ lc_result = OkResult
    /\ Cardinality(skipped) >= 2
    /\ Len(configs_to_parse) = MaxDocs + 1
    /\ \A id \in ConfigIds : parsed[id] = 1
    /\ \E name \in DOMAIN items : items[name] = ItemNames

\* ------------------------------------------------------------------- main
Commands == {"Build", "Diff", "Upgrade"}

\* The declarations in the managers directory of the modelled machine: one
\* manager with the default operation order and separator, one with
\* remove_then_add and a separator, and one whose add template holds no
\* placeholder. A template is the sequence of its words.
Declaration(name) ==
    CASE name = "A" ->
            [name |-> "A",
             add |-> <<"a-add", "<item>">>,
             remove |-> <<"a-remove", "<items>">>,
             list |-> <<"a-list">>,
             upgrade |-> Some(<<"a-upgrade">>),
             remove_then_add |-> FALSE,
             items_separator |-> None,
             items |-> {}, items_to_add |-> <<>>, items_to_remove |-> <<>>]
      [] name = "B" ->
            [name |-> "B",
             add |-> <<"b-add", "<items>", "--yes">>,
             remove |-> <<"b-remove", "<item>", "--from", "<item>">>,
             list |-> <<"b-list">>,
             upgrade |-> None,
             remove_then_add |-> TRUE,
             items_separator |-> Some(","),
             items |-> {}, items_to_add |-> <<>>, items_to_remove |-> <<>>]
      [] OTHER ->
            [name |-> "C",
             add |-> <<"c-add">>,
             remove |-> <<"c-remove", "<items>">>,
             list |-> <<"c-list">>,
             upgrade |-> Some(<<"c-upgrade", "<items>">>),
             remove_then_add |-> TRUE,
             items_separator |-> None,
             items |-> {}, items_to_add |-> <<>>, items_to_remove |-> <<>>]

\* The vectors load_managers can return: distinct names, in any order (the
\* ordering file decides)
ManagerVecs == {v \in SeqsUpTo(ManagerNames, MaxManagers) : NoDuplicates(v)}

\* How a spawned shell command can end (Command::status / Command::output)
CommandStatuses == {"success", "failure", "spawn_error"}

\* (mutant) the exit status is not looked at
ExitStatusIgnored(status) == TRUE

\* Lines 338-344: status.success()
ExitedSuccessfully(status) == status = "success"

Err(context, cause, subject) ==
    [status |-> "Err", context |-> context, cause |-> cause, subject |-> subject]
Ok == [status |-> "Ok", context |-> "", cause |-> "", subject |-> <<>>]
\* Line 83: exit(1)
Exit1 == [status |-> "exit(1)", context |-> "", cause |-> "", subject |-> <<>>]

\* The exit status of the process: main returning Err and exit(1) both end
\* it with status 1
ExitCode(result) == IF result.status = "Ok" THEN 0 ELSE 1

\* One entry of the history `executed`
Run(manager, kind, cmd, status) ==
    [manager |-> manager, kind |-> kind, command |-> cmd, status |-> status]

\* ---- compute_add_remove
\* Lines 250-254: the segments of split('\n') that are not empty, collected
\* into a HashSet. The output is modelled as the sequence of those segments.
RECURSIVE CollectSystemItems(_)
CollectSystemItems(lines) ==
    IF lines = <<>> THEN {}
    ELSE (IF Head(lines) = "" THEN {} ELSE {Head(lines)})
             \cup CollectSystemItems(Tail(lines))

\* .collect() of a HashSet iterator into a Vec: every element once, in an
\* order the hasher decides
VecsOf(S) == {v \in [1..Cardinality(S) -> S] : Range(v) = S}

\* Lines 256-260
ItemsToAdd(its, system) == VecsOf(its \ system)

\* (mutant) the second difference copies the receiver of the first
ItemsToRemoveSameReceiver(its, system) == VecsOf(its \ system)

\* Lines 261-264
ItemsToRemove(its, system) == VecsOf(system \ its)

\* ---- ask_for_confirmation
InputLines == {"y", "Y", "yes", "", "n", "N", "no", "maybe"}

\* What the user said with a line (history only; the code's reading of the
\* line is ParseAnswer): the prompt takes y, Y, yes and the bare newline for
\* consent and n, N, no for refusal
UserSaid(line) ==
    IF line \in {"y", "Y", "yes", ""} THEN "affirmative"
    ELSE IF line \in {"n", "N", "no"} THEN "negative"
    ELSE "unrecognised"

\* (mutant) the empty line is taken for a yes, and so is every other line
ParseAnswerDefaultYes(line) == Some(TRUE)

\* Lines 296-300: the match on the trimmed line
ParseAnswer(line) ==
    IF line \in {"y", "Y", "yes", ""} THEN Some(TRUE)
    ELSE IF line \in {"n", "N", "no"} THEN Some(FALSE)
    ELSE None

\* ---- fmt_run_command
Contains(format_command, placeholder) == placeholder \in Range(format_command)

\* str::replace: every occurrence of `from` is replaced by `to`
RECURSIVE Replace(_, _, _)
Replace(format_command, from, to) ==
    IF format_command = <<>> THEN <<>>
    ELSE (IF Head(format_command) = from THEN to ELSE <<Head(format_command)>>)
             \o Replace(Tail(format_command), from, to)

\* [String]::join
RECURSIVE Join(_, _)
Join(its, separator) ==
    IF its = <<>> THEN <<>>
    ELSE IF Len(its) = 1 THEN <<its[1]>>
    ELSE <<Head(its), separator>> \o Join(Tail(its), separator)

\* Line 314
PerItemCommand(format_command, item) == Replace(format_command, "<item>", <<item>>)

\* Lines 318-319
BatchCommand(format_command, its, items_separator) ==
    Replace(format_command, "<items>", Join(its, items_separator))

\* (mutant) a configured separator is ignored
ItemsSeparatorIgnored(manager) == " "

\* Line 364: manager.items_separator.as_deref().unwrap_or(" ")
ItemsSeparator(manager) ==
    IF IsSome(manager.items_separator) THEN Unwrap(manager.items_separator) ELSE " "

\* ---- add_remove_items
Reverse(s) == [j \in DOMAIN s |-> s[Len(s) + 1 - j]]

\* (mutant) the operations are never reversed
OperationsNeverReversed(manager) ==
    <<[kind |-> "add", format_command |-> manager.add, items |-> manager.items_to_add],
      [kind |-> "remove", format_command |-> manager.remove,
       items |-> manager.items_to_remove]>>

\* Lines 352-359
Operations(manager) ==
    LET operations ==
            <<[kind |-> "add", format_command |-> manager.add,
               items |-> manager.items_to_add],
              [kind |-> "remove", format_command |-> manager.remove,
               items |-> manager.items_to_remove]>>
    IN IF manager.remove_then_add THEN Reverse(operations) ELSE operations

\* The operation add_remove_items is at
Operation == Operations(managers[manager_index])[operation_index]

\* (mutant) the operation is run whether or not it has items
IsEmptyNever(its) == FALSE

\* Line 363: items.is_empty()
IsEmpty(its) == its = <<>>

\* (mutant) the upgrade command goes through the template expansion
UpgradeCommandExpanded(manager) == Replace(Unwrap(manager.upgrade), "<items>", <<>>)

\* Lines 375-376: the command handed to run_command, as configured
UpgradeCommand(manager) == Unwrap(manager.upgrade)

\* Lines 78-80
AnythingToDo ==
    \E j \in DOMAIN managers :
        managers[j].items_to_add # <<>> \/ managers[j].items_to_remove # <<>>

InitMain ==
    /\ IdleManagers
    /\ IdleConfigs
    /\ pc = "load_managers"
    /\ command \in Commands
    /\ managers = <<>>
    /\ manager_index = 1
    /\ operation_index = 1
    /\ item_index = 1
    /\ main_result = Running
    /\ answered = None
    /\ system_items = <<>>
    /\ executed = <<>>

\* Line 67: load_managers returns the ordered managers
MainLoadManagers ==
    /\ pc = "load_managers"
    /\ \E names \in ManagerVecs :
          managers' = [j \in DOMAIN names |-> Declaration(names[j])]
    /\ pc' = IF command = "Upgrade" THEN "upgrade" ELSE "load_configs"
    /\ UNCHANGED <<command, manager_index, operation_index, item_index, main_result, answered, system_items, executed,
                   lmVars, lcVars>>

\* Line 67: load_managers fails
MainLoadManagersFails ==
    /\ pc = "load_managers"
    /\ pc' = "exit"
    /\ main_result' = Err("Failed to load managers", "", <<>>)
    /\ UNCHANGED <<command, managers, manager_index, operation_index, item_index, answered, system_items, executed,
                   lmVars, lcVars>>

\* Line 70: load_configs fills the desired items of every manager; the
\* documents decide which, so every assignment of item sets can result
MainLoadConfigs ==
    /\ pc = "load_configs"
    /\ \E desired \in [DOMAIN managers -> SUBSET ItemNames] :
          managers' = [j \in DOMAIN managers |-> [managers[j] EXCEPT !.items = desired[j]]]
    /\ pc' = "compute"
    /\ manager_index' = 1
    /\ UNCHANGED <<command, operation_index, item_index, main_result, answered, system_items, executed,
                   lmVars, lcVars>>

\* Line 70: load_configs fails
MainLoadConfigsFails ==
    /\ pc = "load_configs"
    /\ pc' = "exit"
    /\ main_result' = Err("Failed to load configs", "", <<>>)
    /\ UNCHANGED <<command, managers, manager_index, operation_index, item_index, answered, system_items, executed,
                   lmVars, lcVars>>

\* Lines 226-265, one manager: the list command succeeds
ListSucceeds ==
    /\ pc = "compute"
    /\ manager_index <= Len(managers)
    /\ \E stdout \in SeqsUpTo(ItemNames \cup {""}, MaxLines) :
          LET system == CollectSystemItems(stdout) IN
          /\ \E to_add \in ItemsToAdd(managers[manager_index].items, system),
                to_remove \in ItemsToRemove(managers[manager_index].items, system) :
                managers' = [managers EXCEPT ![manager_index].items_to_add = to_add,
                                             ![manager_index].items_to_remove = to_remove]
          /\ system_items' = Append(system_items, system)
    /\ executed' = Append(executed, Run(manager_index, "list", managers[manager_index].list, "success"))
    /\ manager_index' = manager_index + 1
    /\ UNCHANGED <<pc, command, operation_index, item_index, main_result, answered, lmVars, lcVars>>

\* (mutant) a list command that fails is taken to have listed nothing
ListFailsIgnored ==
    /\ pc = "compute"
    /\ manager_index <= Len(managers)
    /\ executed' = Append(executed,
          Run(manager_index, "list", managers[manager_index].list, "failure"))
    /\ system_items' = Append(system_items, {})
    /\ managers' = [managers EXCEPT
          ![manager_index].items_to_add = CHOOSE v \in VecsOf(managers[manager_index].items) : TRUE,
          ![manager_index].items_to_remove = <<>>]
    /\ manager_index' = manager_index + 1
    /\ UNCHANGED <<pc, command, operation_index, item_index, answered, main_result, lmVars, lcVars>>

\* Lines 228-248: the list command cannot be spawned, exits non-zero, or
\* prints bytes that are not UTF-8
ListFails ==
    /\ pc = "compute"
    /\ manager_index <= Len(managers)
    /\ \E how \in {"spawn_error", "failure", "not_utf8"} :
          /\ executed' = Append(executed,
                Run(manager_index, "list", managers[manager_index].list,
                    IF how = "not_utf8" THEN "success" ELSE how))
          /\ main_result' = Err("Failed to compute add/remove",
                CASE how = "spawn_error" -> "Failed to execute command 'list' for manager"
                  [] how = "failure" -> "Command 'list' for manager failed with stderr"
                  [] OTHER -> "Failed to convert command output to String",
                IF how = "not_utf8" THEN <<>> ELSE <<managers[manager_index].name>>)
    /\ pc' = "exit"
    /\ UNCHANGED <<command, managers, manager_index, operation_index, item_index, answered, system_items, lmVars, lcVars>>

\* Lines 74-90: print_diff, then the branch on the subcommand
PrintDiff ==
    /\ pc = "compute"
    /\ manager_index > Len(managers)
    /\ IF command = "Build" /\ AnythingToDo
       THEN /\ pc' = "confirm"
            /\ UNCHANGED main_result
       ELSE /\ pc' = "exit"
            /\ main_result' = Ok
    /\ UNCHANGED <<command, managers, manager_index, operation_index, item_index, answered, system_items, executed,
                   lmVars, lcVars>>

\* Lines 82-85 and 286-302: one line is read and matched
AskForConfirmation ==
    /\ pc = "confirm"
    /\ \E line \in InputLines :
          /\ answered' = Some(UserSaid(line))
          /\ LET answer == ParseAnswer(line) IN
             IF ~IsSome(answer)
             THEN UNCHANGED <<pc, main_result, manager_index, operation_index, item_index>>
             ELSE IF Unwrap(answer)
             THEN /\ pc' = "execute"
                  /\ manager_index' = 1 /\ operation_index' = 1 /\ item_index' = 1
                  /\ UNCHANGED main_result
             ELSE /\ pc' = "exit"
                  /\ main_result' = Exit1
                  /\ UNCHANGED <<manager_index, operation_index, item_index>>
    /\ UNCHANGED <<command, managers, system_items, executed, lmVars, lcVars>>

\* Line 294: standard input cannot be read
AskForConfirmationFails ==
    /\ pc = "confirm"
    /\ pc' = "exit"
    /\ main_result' = Err("Failed to ask for confirmation", "Failed to get input", <<>>)
    /\ UNCHANGED <<command, managers, manager_index, operation_index, item_index, answered, system_items, executed,
                   lmVars, lcVars>>

\* (mutant) the loops are nested the other way round: the first operation
\* of every manager, then the second operation of every manager
NextOperationOperationsFirst ==
    /\ item_index' = 1
    /\ IF manager_index < Len(managers)
       THEN operation_index' = operation_index /\ manager_index' = manager_index + 1
       ELSE IF operation_index < 2
            THEN operation_index' = operation_index + 1 /\ manager_index' = 1
            ELSE operation_index' = 1 /\ manager_index' = manager_index + 1

\* The loops of add_remove_items move on to the next operation
NextOperation ==
    /\ item_index' = 1
    /\ IF operation_index < 2 THEN operation_index' = operation_index + 1 /\ manager_index' = manager_index ELSE operation_index' = 1 /\ manager_index' = manager_index + 1

\* Line 363: an operation without items is skipped
SkipEmptyOperation ==
    /\ pc = "execute"
    /\ manager_index <= Len(managers)
    /\ IsEmpty(Operation.items)
    /\ NextOperation
    /\ UNCHANGED <<pc, command, managers, main_result, answered, system_items, executed,
                   lmVars, lcVars>>

\* Lines 311-315 with 329-345: the command of the next item is run
RunItemCommand ==
    /\ pc = "execute"
    /\ manager_index <= Len(managers)
    /\ ~IsEmpty(Operation.items)
    /\ Contains(Operation.format_command, "<item>")
    /\ item_index <= Len(Operation.items)
    /\ LET cmd == PerItemCommand(Operation.format_command, Operation.items[item_index]) IN
       \E status \in CommandStatuses :
          /\ executed' = Append(executed, Run(manager_index, Operation.kind, cmd, status))
          /\ IF ExitedSuccessfully(status)
             THEN /\ IF item_index < Len(Operation.items)
                     THEN item_index' = item_index + 1 /\ UNCHANGED <<manager_index, operation_index>>
                     ELSE NextOperation
                  /\ UNCHANGED <<pc, main_result>>
             ELSE /\ pc' = "exit"
                  /\ main_result' = Err("Failed to add/remove items",
                        IF status = "spawn_error"
                        THEN "Failed to spawn child command"
                        ELSE "Command did not exit successfully", cmd)
                  /\ UNCHANGED <<manager_index, operation_index, item_index>>
    /\ UNCHANGED <<command, managers, answered, system_items, lmVars, lcVars>>

\* Lines 317-320 with 329-345: one command is run for all items
RunItemsCommand ==
    /\ pc = "execute"
    /\ manager_index <= Len(managers)
    /\ ~IsEmpty(Operation.items)
    /\ ~Contains(Operation.format_command, "<item>")
    /\ Contains(Operation.format_command, "<items>")
    /\ LET cmd == BatchCommand(Operation.format_command, Operation.items,
                               ItemsSeparator(managers[manager_index])) IN
       \E status \in CommandStatuses :
          /\ executed' = Append(executed, Run(manager_index, Operation.kind, cmd, status))
          /\ IF ExitedSuccessfully(status)
             THEN /\ NextOperation
                  /\ UNCHANGED <<pc, main_result>>
             ELSE /\ pc' = "exit"
                  /\ main_result' = Err("Failed to add/remove items",
                        IF status = "spawn_error"
                        THEN "Failed to spawn child command"
                        ELSE "Command did not exit successfully", cmd)
                  /\ UNCHANGED <<manager_index, operation_index, item_index>>
    /\ UNCHANGED <<command, managers, answered, system_items, lmVars, lcVars>>

\* Lines 321-325: the template holds neither placeholder
TemplateWithoutPlaceholder ==
    /\ pc = "execute"
    /\ manager_index <= Len(managers)
    /\ ~IsEmpty(Operation.items)
    /\ ~Contains(Operation.format_command, "<item>")
    /\ ~Contains(Operation.format_command, "<items>")
    /\ pc' = "exit"
    /\ main_result' = Err("Failed to add/remove items",
                          "Add command should contain either <item> or <items>",
                          Operation.format_command)
    /\ UNCHANGED <<command, managers, manager_index, operation_index, item_index, answered, system_items, executed,
                   lmVars, lcVars>>

\* Lines 369-370 and 85, 90: every manager is done
AddRemoveDone ==
    /\ pc = "execute"
    /\ manager_index > Len(managers)
    /\ pc' = "exit"
    /\ main_result' = Ok
    /\ UNCHANGED <<command, managers, manager_index, operation_index, item_index, answered, system_items, executed,
                   lmVars, lcVars>>

\* Lines 374-379: the upgrade command of the next manager, if it has one
UpgradeManager ==
    /\ pc = "upgrade"
    /\ manager_index <= Len(managers)
    /\ IF IsSome(managers[manager_index].upgrade)
       THEN \E status \in CommandStatuses :
               /\ executed' = Append(executed,
                                 Run(manager_index, "upgrade", UpgradeCommand(managers[manager_index]), status))
               /\ IF ExitedSuccessfully(status)
                  THEN /\ manager_index' = manager_index + 1
                       /\ UNCHANGED <<pc, main_result>>
                  ELSE /\ pc' = "exit"
                       /\ main_result' = Err("Failed to upgrade managers",
                             "Failed to run upgrade command for manager",
                             <<managers[manager_index].name>>)
                       /\ UNCHANGED manager_index
       ELSE /\ manager_index' = manager_index + 1
            /\ UNCHANGED <<pc, main_result, executed>>
    /\ UNCHANGED <<command, managers, operation_index, item_index, answered, system_items, lmVars, lcVars>>

\* Lines 380-381 and 92
UpgradeDone ==
    /\ pc = "upgrade"
    /\ manager_index > Len(managers)
    /\ pc' = "exit"
    /\ main_result' = Ok
    /\ UNCHANGED <<command, managers, manager_index, operation_index, item_index, answered, system_items, executed,
                   lmVars, lcVars>>

Next ==
    \/ MainLoadManagers
    \/ MainLoadManagersFails
    \/ MainLoadConfigs
    \/ MainLoadConfigsFails
    \/ ListSucceeds
    \/ ListFails
    \/ PrintDiff
    \/ AskForConfirmation
    \/ AskForConfirmationFails
    \/ SkipEmptyOperation
    \/ RunItemCommand
    \/ RunItemsCommand
    \/ TemplateWithoutPlaceholder
    \/ AddRemoveDone
    \/ UpgradeManager
    \/ UpgradeDone

Init == InitMain

Spec == Init /\ [][Next]_vars

\* ---- claims about main and the engines

IsMutating(e) == e.kind \in {"add", "remove"}
NoMutatingCommand == \A p \in DOMAIN executed : ~IsMutating(executed[p])

\* The commands of one operation of one manager, in the order they were run
CommandsOf(j, kind) ==
    LET OfOperation(e) == e.manager = j /\ e.kind = kind
    IN SelectSeq(executed, OfOperation)

TemplateOf(j, kind) == IF kind = "add" THEN managers[j].add ELSE managers[j].remove
ItemsOf(j, kind) ==
    IF kind = "add" THEN managers[j].items_to_add ELSE managers[j].items_to_remove

\* add_remove_items returned Ok
AddRemoveReturnedOk ==
    pc = "exit" /\ main_result = Ok /\ command = "Build" /\ answered = Some("affirmative")

\* C1: for every manager whose list command has succeeded, items_to_add
\* holds exactly the desired items that are not installed, items_to_remove
\* exactly the installed items that are not desired, and the two share no
\* item.
C1_AddRemoveAreSetDifferences ==
    \A j \in DOMAIN system_items :
        LET D == managers[j].items
            I == system_items[j]
        IN /\ Range(managers[j].items_to_add) = D \ I
           /\ Range(managers[j].items_to_remove) = I \ D
           /\ Range(managers[j].items_to_add) \cap Range(managers[j].items_to_remove) = {}

\* compute_add_remove has succeeded for two managers: one must add and
\* remove, the other has a desired item that is installed already
C1_Witness ==
    /\ pc = "confirm"
    /\ Len(system_items) = 2
    /\ managers[1].items_to_add # <<>>
    /\ managers[1].items_to_remove # <<>>
    /\ managers[2].items \cap system_items[2] # {}
    /\ managers[2].items_to_remove # <<>>

\* C6: an add or remove command is only ever run by Build after the user
\* consented; Diff runs none; and a refusal ends the run at once with a
\* non-zero exit status and no add or remove command run.
C6_NoMutationWithoutConfirmedBuild ==
    /\ ~NoMutatingCommand => (command = "Build" /\ answered = Some("affirmative"))
    /\ command = "Diff" => NoMutatingCommand
    /\ answered = Some("negative") =>
          /\ pc = "exit"
          /\ ExitCode(main_result) # 0
          /\ NoMutatingCommand

\* The user refused a Build that had something to do
C6_Witness ==
    /\ command = "Build"
    /\ answered = Some("negative")
    /\ pc = "exit"
    /\ AnythingToDo

\* C7: within one manager no remove command follows an add command when
\* remove_then_add is set, and no add command follows a remove command when
\* it is not; and the second operation only starts once the first has run
\* all its commands.
C7_RemoveThenAddOrder ==
    \A p, q \in DOMAIN executed :
        (p < q /\ executed[p].manager = executed[q].manager
               /\ IsMutating(executed[p]) /\ IsMutating(executed[q])
               /\ executed[p].kind # executed[q].kind) =>
            LET j == executed[p].manager
                first == executed[p].kind
            IN /\ first = (IF managers[j].remove_then_add THEN "remove" ELSE "add")
               /\ Len(CommandsOf(j, first)) =
                     (IF "<item>" \in Range(TemplateOf(j, first))
                      THEN Len(ItemsOf(j, first)) ELSE 1)

\* Both a manager with remove_then_add and one without have run both of
\* their operations
C7_Witness ==
    /\ AddRemoveReturnedOk
    /\ \E j \in DOMAIN managers :
          /\ managers[j].remove_then_add
          /\ CommandsOf(j, "add") # <<>> /\ CommandsOf(j, "remove") # <<>>
    /\ \E j \in DOMAIN managers :
          /\ ~managers[j].remove_then_add
          /\ CommandsOf(j, "add") # <<>> /\ CommandsOf(j, "remove") # <<>>

\* C8: when the run ends with a configuration error (the managers or the
\* configs cannot be loaded, or a template holds neither placeholder), no
\* add or remove command has been run.
IsConfigurationError(result) ==
    /\ result.status = "Err"
    /\ \/ result.context \in {"Failed to load managers", "Failed to load configs"}
       \/ result.cause = "Add command should contain either <item> or <items>"

C8_ConfigErrorBeforeAnyMutation ==
    IsConfigurationError(main_result) => NoMutatingCommand

\* The template with every "<item>" replaced by the item
WithItem(template, item) ==
    [n \in DOMAIN template |-> IF template[n] = "<item>" THEN item ELSE template[n]]

\* C9: for a template that holds <item>, the commands run for the operation
\* are the template with <item> replaced by the first, second, ... item, one
\* command per item; a command that did not succeed is the last command of
\* the whole run; and an operation that was not cut short ran one command
\* for every item.
C9_PerItemCommandsStopAtFirstFailure ==
    /\ \A j \in DOMAIN managers : \A kind \in {"add", "remove"} :
          "<item>" \in Range(TemplateOf(j, kind)) =>
              LET ran == CommandsOf(j, kind)
                  its == ItemsOf(j, kind)
              IN /\ Len(ran) <= Len(its)
                 /\ \A n \in DOMAIN ran :
                       ran[n].command = WithItem(TemplateOf(j, kind), its[n])
                 /\ AddRemoveReturnedOk => Len(ran) = Len(its)
    /\ \A p \in DOMAIN executed :
          (IsMutating(executed[p]) /\ executed[p].status # "success") =>
              /\ p = Len(executed)
              /\ pc = "exit"
              /\ main_result.status = "Err"

\* A per-item operation with two items whose first command exited non-zero
C9_Witness ==
    /\ pc = "exit"
    /\ \E j \in DOMAIN managers : \E kind \in {"add", "remove"} :
          /\ "<item>" \in Range(TemplateOf(j, kind))
          /\ Len(ItemsOf(j, kind)) = 2
          /\ Len(CommandsOf(j, kind)) = 1
          /\ CommandsOf(j, kind)[1].status = "failure"

\* The items with the separator between every two of them
Joined(its, separator) ==
    [n \in 1..(2 * Len(its) - 1) |->
        IF n % 2 = 1 THEN its[(n + 1) \div 2] ELSE separator]

\* The template with every "<items>" replaced by the words of `joined`,
\* built from its last word backwards
RECURSIVE WithItems(_, _, _)
WithItems(template, n, joined) ==
    IF n = 0 THEN <<>>
    ELSE WithItems(template, n - 1, joined)
             \o (IF template[n] = "<items>" THEN joined ELSE <<template[n]>>)

\* C10: for a template that holds <items> and not <item>, at most one
\* command is run for the operation, it is run only for a non-empty item
\* list, and it is the template with <items> replaced by all items of the
\* operation joined with the manager's items_separator, or with a single
\* space when none is configured; an operation with items that was not cut
\* short ran exactly one command.
C10_BatchCommandIsOneJoinedCommand ==
    \A j \in DOMAIN managers : \A kind \in {"add", "remove"} :
        LET template == TemplateOf(j, kind)
            ran == CommandsOf(j, kind)
            its == ItemsOf(j, kind)
            separator == IF managers[j].items_separator = None
                         THEN " " ELSE managers[j].items_separator[2]
        IN ("<items>" \in Range(template) /\ "<item>" \notin Range(template)) =>
              /\ Len(ran) <= 1
              /\ ran # <<>> =>
                    /\ its # <<>>
                    /\ ran[1].command =
                          WithItems(template, Len(template), Joined(its, separator))
              /\ (AddRemoveReturnedOk /\ its # <<>>) => Len(ran) = 1

\* Two batch operations with two items each have run: one joined with the
\* default space, one with the configured ","
C10_Witness ==
    /\ AddRemoveReturnedOk
    /\ \E p, q \in DOMAIN executed :
          /\ executed[p].command \in {<<"a-remove", "x", " ", "y">>,
                                      <<"a-remove", "y", " ", "x">>}
          /\ executed[q].command \in {<<"b-add", "x", ",", "y", "--yes">>,
                                      <<"b-add", "y", ",", "x", "--yes">>}

\* ---- further claims about load_configs

\* The entry in progress is a value that is neither a string nor an array
NonStringScalarEntry == lc_pc = "entry" /\ entry.kind = "Integer"

\* C12: a value that is not a string or an array of strings is fatal: with
\* the iterator on an entry whose value is a non-string scalar, the next
\* step of load_configs is the return of the error that reports the value
\* (an array element that is not a string is reported by the step that
\* reads it).
C12_NonStringValueIsFatal ==
    [][NonStringScalarEntry => (lc_pc' = "done" /\ lc_result' = NonStringItemError)]_vars

\* The entry in progress has a key that is neither `imports` nor the name
\* of a loaded manager
UnknownKeyEntry ==
    /\ lc_pc = "entry"
    /\ entry.manager_name \notin (DOMAIN items \cup {"imports"})

\* C14 as stated: whatever load_configs does with an entry whose key
\* matches no loaded manager, it raises no error, and it changes neither a
\* desired set nor the worklist.
C14_UnknownKeyNeverFails ==
    [][UnknownKeyEntry =>
          /\ lc_result' = lc_result
          /\ items' = items
          /\ configs_to_parse' = configs_to_parse]_vars

\* C14, amended: under a key that matches no loaded manager every string
\* is consumed without an error, and no step on such an entry changes a
\* desired set or the worklist; the only error such an entry can raise is
\* the one for an array element that is not a string, which is fatal under
\* every key.
C14_UnknownKeyStringsDiscarded ==
    [][UnknownKeyEntry =>
          /\ items' = items
          /\ configs_to_parse' = configs_to_parse
          /\ lc_result' \in {lc_result, NonStringItemError}
          /\ lc_pc' # "done" => lc_result' = NoResult]_vars

\* Two strings under a key that matches no loaded manager have been
\* consumed, with a manager loaded that could have received them
C14_Witness ==
    /\ UnknownKeyEntry
    /\ entry.consumed = 2
    /\ DOMAIN items # {}
    /\ lc_result = NoResult

\* Whether the text of an error holds the path of the document
NamesPath(message, id) == \E n \in DOMAIN message : message[n] = ConfigFile(id)

\* C15: when load_configs has failed because a document could not be read
\* or parsed, the error message holds the path of that document.
C15_ReadOrParseErrorNamesPath ==
    (lc_pc = "done" /\ lc_result \in {ReadConfigError, DeserializeConfigError}) =>
        NamesPath(lc_result, configs_to_parse[i + 1])

\* C17: when load_configs has returned Ok, the desired set of every loaded
\* manager is exactly the set of the items read under its name in the
\* documents of the worklist, which are the documents reachable from the
\* root through imports.
C17_DesiredSetIsUnionOfDeclaredItems ==
    lc_result = OkResult =>
        \A name \in DOMAIN items : items[name] = declared[name]

\* ---- claims about failures, skipped operations, upgrade and the order of
\* ---- the commands

IsStateChanging(e) == e.kind \in {"add", "remove", "upgrade"}
SomeCommandFailed ==
    \E p \in DOMAIN executed :
        IsStateChanging(executed[p]) /\ executed[p].status # "success"

\* C11: an add, remove or upgrade command that does not exit successfully
\* is the last command of the run, and the run has ended with an error;
\* from then on no command is run at all, for this manager or a later one,
\* and the commands that ran before it stay as they are (the log only
\* grows, nothing is undone).
C11_FailFastNoRollback ==
    /\ [](\A p \in DOMAIN executed :
            (IsStateChanging(executed[p]) /\ executed[p].status # "success") =>
                /\ p = Len(executed)
                /\ pc = "exit"
                /\ main_result.status = "Err"
                /\ ExitCode(main_result) # 0)
    /\ [][IsPrefix(executed, executed')]_vars
    /\ [][SomeCommandFailed => executed' = executed]_vars

\* The first manager's add and remove commands all succeeded, the second
\* manager's first command failed and its other operation, which has
\* items, never ran
C11_Witness ==
    /\ pc = "exit"
    /\ main_result.status = "Err"
    /\ Len(managers) = 2
    /\ CommandsOf(1, "add") # <<>>
    /\ CommandsOf(1, "remove") # <<>>
    /\ \A p \in DOMAIN executed :
          executed[p].manager = 1 => executed[p].status = "success"
    /\ \E kind \in {"add", "remove"}, other \in {"add", "remove"} :
          /\ kind # other
          /\ Len(CommandsOf(2, kind)) = 1
          /\ CommandsOf(2, kind)[1].status = "failure"
          /\ ItemsOf(2, other) # <<>>
          /\ CommandsOf(2, other) = <<>>

\* The run stopped on a template without a placeholder
StoppedOnTemplate ==
    /\ pc = "exit"
    /\ main_result.status = "Err"
    /\ main_result.cause = "Add command should contain either <item> or <items>"

\* C13: no add or remove command is ever run for an operation whose item
\* list is empty, and the template of such an operation is not expanded
\* either: the error for a template without a placeholder is only raised
\* for an operation that has items.
C13_EmptyOperationSkipped ==
    /\ \A p \in DOMAIN executed :
          IsMutating(executed[p]) =>
              ItemsOf(executed[p].manager, executed[p].kind) # <<>>
    /\ StoppedOnTemplate => Operation.items # <<>>

\* A Build that returned Ok over a manager whose add template has no
\* placeholder and whose add list is empty, and whose remove command ran
C13_Witness ==
    /\ AddRemoveReturnedOk
    /\ \E j \in DOMAIN managers :
          /\ "<item>" \notin Range(managers[j].add)
          /\ "<items>" \notin Range(managers[j].add)
          /\ managers[j].items_to_add = <<>>
          /\ CommandsOf(j, "remove") # <<>>

\* The managers that have an upgrade command, in manager order
RECURSIVE Upgradable(_)
Upgradable(n) ==
    IF n = 0 THEN <<>>
    ELSE Upgradable(n - 1) \o (IF IsSome(managers[n].upgrade) THEN <<n>> ELSE <<>>)

\* C16: only the Upgrade subcommand runs upgrade commands, and it runs no
\* list, add or remove command; the commands it has run are those of the
\* managers that have an upgrade command, in manager order, one each, with
\* the configured text unchanged; and when it returns Ok it has run the
\* command of every such manager.
C16_UpgradeRunsConfiguredCommandsInOrder ==
    /\ \A p \in DOMAIN executed :
          (executed[p].kind = "upgrade") <=> (command = "Upgrade")
    /\ command = "Upgrade" =>
          LET upgradable == Upgradable(Len(managers))
          IN /\ Len(executed) <= Len(upgradable)
             /\ \A p \in DOMAIN executed :
                   /\ executed[p].manager = upgradable[p]
                   /\ executed[p].command = managers[upgradable[p]].upgrade[2]
             /\ (pc = "exit" /\ main_result = Ok) => Len(executed) = Len(upgradable)

\* Upgrade returned Ok over a manager without an upgrade command followed
\* by one whose upgrade command holds the text "<items>"
C16_Witness ==
    /\ command = "Upgrade"
    /\ pc = "exit"
    /\ main_result = Ok
    /\ Len(managers) = 2
    /\ managers[1].upgrade = None
    /\ Len(executed) = 1
    /\ "<items>" \in Range(executed[1].command)

\* C18: no list command is run after an add or remove command; when an add
\* or remove command has run, the list command of every manager has
\* succeeded; and a list command that did not exit successfully is the
\* last command of the run, which has ended with an error that names the
\* manager.
C18_AllListsBeforeFirstMutation ==
    /\ \A p, q \in DOMAIN executed :
          (p < q /\ IsMutating(executed[p])) => executed[q].kind # "list"
    /\ ~NoMutatingCommand =>
          \A j \in DOMAIN managers :
              /\ Len(CommandsOf(j, "list")) = 1
              /\ CommandsOf(j, "list")[1].status = "success"
    /\ \A p \in DOMAIN executed :
          (executed[p].kind = "list" /\ executed[p].status # "success") =>
              /\ p = Len(executed)
              /\ NoMutatingCommand
              /\ pc = "exit"
              /\ ExitCode(main_result) # 0
              /\ main_result.subject = <<managers[executed[p].manager].name>>

\* The second manager's list command exited non-zero in a Build where the
\* first manager's desired items are not all installed
C18_Witness ==
    /\ command = "Build"
    /\ pc = "exit"
    /\ Len(managers) = 2
    /\ Len(executed) = 2
    /\ executed[1].status = "success"
    /\ managers[1].items_to_add # <<>>
    /\ executed[2].kind = "list"
    /\ executed[2].status = "failure"

\* How many commands an operation runs when none of them fails
CommandsNeeded(j, kind) ==
    IF "<item>" \in Range(TemplateOf(j, kind)) THEN Len(ItemsOf(j, kind))
    ELSE IF ItemsOf(j, kind) = <<>> THEN 0 ELSE 1

\* C19: the add and remove commands are run in manager order: none of a
\* manager is run after one of a later manager, and a later manager's first
\* command is only run once both operations of every earlier manager are
\* complete. Every command is one step that ends with its exit status, so
\* no two commands run at the same time.
C19_CommandsInManagerOrder ==
    \A p, q \in DOMAIN executed :
        (p < q /\ IsMutating(executed[p]) /\ IsMutating(executed[q])) =>
            /\ executed[p].manager <= executed[q].manager
            /\ executed[p].manager < executed[q].manager =>
                  /\ executed[p].status = "success"
                  /\ \A kind \in {"add", "remove"} :
                        Len(CommandsOf(executed[p].manager, kind)) =
                            CommandsNeeded(executed[p].manager, kind)

\* Two managers have each run an add and a remove command, the second
\* manager's last one failing
C19_Witness ==
    /\ pc = "exit"
    /\ Len(managers) = 2
    /\ \A j \in {1, 2} :
          CommandsOf(j, "add") # <<>> /\ CommandsOf(j, "remove") # <<>>
    /\ executed[Len(executed)].manager = 2
    /\ executed[Len(executed)].status = "failure"

====
